---- MODULE Spec2Model ----
(***************************************************************************)
(* Model of the request dispatcher (Library/OSRM.cpp) and of the road      *)
(* classification heuristics (extractor/guidance classification header).   *)
(***************************************************************************)
EXTENDS Integers, Sequences, FiniteSets, TLC

VARIABLES
    plugin_map,         \* OSRM::plugin_map : descriptor -> plugin id
    plugins,            \* every plugin object handed to RegisterPlugin, in order:
                        \*   [descriptor, deleted (number of delete calls on it)]
    query_data_facade,  \* "live" | "released"
    pc,                 \* "running" | "destroyed" | "crashed"
    reply,              \* the caller's http::Reply after the last RunQuery
    last,               \* record of the last operation (history variable)
    args,               \* arguments of a classification heuristic
    result              \* what the heuristic returned

vars == <<plugin_map, plugins, query_data_facade, pc, reply, last, args, result>>

dispatcherVars == <<plugin_map, plugins, query_data_facade, pc, reply, last>>

(***************************************************************************)
(* Bounds                                                                  *)
(***************************************************************************)
\* RegisterPlugin calls made after the constructor's own five
MaxRegistrations == 2

\* Highest road priority class among the arguments of the three-argument
\* heuristics
MaxPriority == 5

(***************************************************************************)
(* Dispatcher: Library/OSRM.cpp                                            *)
(***************************************************************************)
\* The five plugins the constructor registers, in order.  Each is named by
\* its class; the five descriptors are pairwise distinct.
BuiltinPlugins == <<"HelloWorld", "Locate", "Nearest", "Timestamp", "ViaRoute">>

BuiltinDescriptors == {BuiltinPlugins[i] : i \in 1..Len(BuiltinPlugins)}

\* Descriptors of the plugins registered after construction: one that the
\* constructor already used and one that it did not.
Descriptors == {"HelloWorld", "Custom"}

\* Service names a request may carry.
Services == BuiltinDescriptors \cup Descriptors \cup {"NoSuchService"}

NoPlugin == 0

\* http::Reply as far as the dispatcher is concerned.
Statuses == {"ok", "badRequest", "internalServerError"}

\* What the caller's reply may hold when RunQuery is entered.  The content
\* is "prior" on entry, "stock" in a stock reply, "handler" once a handler
\* wrote it.
PriorReplies == [status : Statuses, content : {"prior"}]

\* http::Reply::stockReply(status)
stockReply(status) == [status |-> status, content |-> "stock"]

\* plugin_map.find(key): the stored pointer, NoPlugin for end()
Find(map, key) == IF key \in DOMAIN map THEN map[key] ELSE NoPlugin

\* plugin_map.emplace(key, value): inserts only when the key is absent
Emplace(map, key, value) ==
    IF key \in DOMAIN map
    THEN map
    ELSE [k \in DOMAIN map \cup {key} |-> IF k = key THEN value ELSE map[k]]

\* delete p
Delete(ps, p) == [ps EXCEPT ![p].deleted = @ + 1]

\* OSRM::RegisterPlugin(new plugin with descriptor d) on registry (map, ps):
\* the registry after the call.
RegisterPluginMap(map, ps, d) == Emplace(map, d, Len(ps) + 1)

RegisterPluginObjects(map, ps, d) ==
    LET created == Append(ps, [descriptor |-> d, deleted |-> 0])
    IN  IF Find(map, d) # NoPlugin THEN Delete(created, Find(map, d)) ELSE created

\* The registry after the constructor registered the first n built-in plugins.
RECURSIVE ConstructedMap(_), ConstructedObjects(_)
ConstructedMap(n) ==
    IF n = 0 THEN [d \in {} |-> NoPlugin]
    ELSE RegisterPluginMap(ConstructedMap(n - 1), ConstructedObjects(n - 1),
                           BuiltinPlugins[n])
ConstructedObjects(n) ==
    IF n = 0 THEN << >>
    ELSE RegisterPluginObjects(ConstructedMap(n - 1), ConstructedObjects(n - 1),
                               BuiltinPlugins[n])

NoOp == [op |-> "none", service |-> "none", pre |-> stockReply("ok"),
         found |-> FALSE, invoked |-> << >>, wrote |-> "none",
         passed |-> stockReply("ok"), returned |-> TRUE]

\* State after OSRM::OSRM returned.
DispatcherInit ==
    /\ plugin_map = ConstructedMap(Len(BuiltinPlugins))
    /\ plugins = ConstructedObjects(Len(BuiltinPlugins))
    /\ query_data_facade = "live"
    /\ pc = "running"
    /\ reply = stockReply("ok")
    /\ last = NoOp

\* OSRM::RegisterPlugin(plugin), plugin a freshly created object.  Deleting
\* an already deleted object is undefined: the run may abort or go on.
RegisterPlugin(d) ==
    /\ pc = "running"
    /\ Len(plugins) < Len(BuiltinPlugins) + MaxRegistrations
    /\ plugin_map' = RegisterPluginMap(plugin_map, plugins, d)
    /\ plugins' = RegisterPluginObjects(plugin_map, plugins, d)
    /\ \/ /\ pc' = pc
          /\ last' = [NoOp EXCEPT !.op = "RegisterPlugin", !.service = d]
       \/ /\ Find(plugin_map, d) # NoPlugin
          /\ plugins[Find(plugin_map, d)].deleted > 0
          /\ pc' = "crashed"
          /\ last' = [NoOp EXCEPT !.op = "RegisterPlugin", !.service = d,
                                  !.returned = FALSE]
    /\ UNCHANGED <<query_data_facade, reply, args, result>>

\* What a plugin's HandleRequest may do to the reply it is given: write a
\* status or leave it, write a body or leave it.
HandlerWrites == [status : Statuses \cup {"untouched"}, body : BOOLEAN]

HandleRequest(r, w) ==
    [status  |-> IF w.status = "untouched" THEN r.status ELSE w.status,
     content |-> IF w.body THEN "handler" ELSE r.content]

\* Mutant: the dispatcher leaves the status to the handler.
PresetStatus_Skipped(r) == r

\* RunQuery, found branch, line 88: the write made before the handler runs
PresetStatus(r) == [r EXCEPT !.status = "ok"]

\* Mutant: only the status is set, the rest of the reply is kept.
NoMatchReply_KeepsBody(r) == [r EXCEPT !.status = "badRequest"]

\* RunQuery, else branch, line 91
NoMatchReply(r) == stockReply("badRequest")

\* Objects whose HandleRequest a call through pointer p can run.  A live
\* object runs its own handler.  A call through a pointer to a deleted
\* object is undefined: it may run the stale object's handler or that of any
\* object now occupying the storage, or crash (see RunQuery).
Callees(ps, p) == IF ps[p].deleted = 0 THEN {p} ELSE 1..Len(ps)

\* OSRM::RunQuery(route_parameters, reply), reply holding pre on entry
RunQuery(service, pre) ==
    /\ pc = "running"
    /\ LET p == Find(plugin_map, service)
       IN  IF p # NoPlugin
           THEN \/ \E h \in Callees(plugins, p), w \in HandlerWrites :
                     /\ reply' = HandleRequest(PresetStatus(pre), w)
                     /\ last' = [op |-> "RunQuery", service |-> service,
                                 pre |-> pre, found |-> TRUE,
                                 invoked |-> <<h>>, wrote |-> w.status,
                                 passed |-> PresetStatus(pre),
                                 returned |-> TRUE]
                     /\ pc' = pc
                \/ /\ plugins[p].deleted > 0
                   /\ reply' = PresetStatus(pre)
                   /\ last' = [op |-> "RunQuery", service |-> service,
                               pre |-> pre, found |-> TRUE,
                               invoked |-> << >>, wrote |-> "none",
                               passed |-> PresetStatus(pre),
                               returned |-> FALSE]
                   /\ pc' = "crashed"
           ELSE /\ reply' = NoMatchReply(pre)
                /\ last' = [op |-> "RunQuery", service |-> service,
                            pre |-> pre, found |-> FALSE,
                            invoked |-> << >>, wrote |-> "none",
                            passed |-> pre, returned |-> TRUE]
                /\ pc' = pc
    /\ UNCHANGED <<plugin_map, plugins, query_data_facade, args, result>>

\* The pointers the destructor's loop deletes: one per registry entry.
Owned(map) == {map[d] : d \in DOMAIN map}

\* OSRM::~OSRM: delete every plugin_map entry's pointer.  Deleting an
\* already deleted object is undefined: the run may abort or go on.
Destroy ==
    /\ pc = "running"
    /\ plugins' = [i \in 1..Len(plugins) |->
                     IF i \in Owned(plugin_map)
                     THEN [plugins[i] EXCEPT !.deleted = @ + 1]
                     ELSE plugins[i]]
    /\ \/ pc' = "destroyed"
       \/ /\ \E i \in Owned(plugin_map) : plugins[i].deleted > 0
          /\ pc' = "crashed"
    /\ last' = [NoOp EXCEPT !.op = "Destroy"]
    /\ UNCHANGED <<plugin_map, query_data_facade, reply, args, result>>

(***************************************************************************)
(* Road classification: extractor/guidance classification header           *)
(***************************************************************************)
\* namespace RoadPriorityClass
MOTORWAY == 0
MOTORWAY_LINK == 1
TRUNK == 2
TRUNK_LINK == 3
PRIMARY == 4
PRIMARY_LINK == 5
SECONDARY == 6
SECONDARY_LINK == 7
TERTIARY == 8
TERTIARY_LINK == 9
MAIN_RESIDENTIAL == 10
SIDE_RESIDENTIAL == 11
ALLEY == 12
PARKING == 13
LINK_ROAD == 14
BIKE_PATH == 16
FOOT_PATH == 18
CONNECTIVITY == 31

\* width of the road_priority_class bit-field
PriorityBits == 5

\* width of the std::uint8_t number_of_lanes
LaneBits == 8

\* PRIORITY_DISTINCTION_FACTOR of guidance/constants.hpp, a floating point
\* number, as the fraction FactorNum / FactorDen
FactorNum == 7
FactorDen == 4

Bit(b) == IF b THEN 1 ELSE 0

\* RoadClassification(motorway_class, link_class, may_be_ignored,
\*                    road_priority_class, number_of_lanes)
RoadClassification(m, l, i, p, n) ==
    [motorway_class |-> Bit(m), link_class |-> Bit(l), may_be_ignored |-> Bit(i),
     road_priority_class |-> p % (2 ^ PriorityBits),
     number_of_lanes |-> n % (2 ^ LaneBits)]

\* RoadClassification()
DefaultRoadClassification == RoadClassification(FALSE, FALSE, FALSE, CONNECTIVITY, 0)

IsMotorwayClass(c) == c.motorway_class # 0

IsRampClass(c) == (0 # c.motorway_class) /\ (0 # c.link_class)

IsLinkClass(c) == 0 # c.link_class

IsLowPriorityRoadClass(c) == 0 # c.may_be_ignored

GetPriority(c) == c.road_priority_class

\* RoadClassification::operator==
Equals(a, b) ==
    /\ a.motorway_class = b.motorway_class
    /\ a.link_class = b.link_class
    /\ a.may_be_ignored = b.may_be_ignored
    /\ a.road_priority_class = b.road_priority_class

Abs(x) == IF x < 0 THEN -x ELSE x

canBeSeenAsFork(first, second) ==
    Abs(GetPriority(first) - GetPriority(second)) <= 1

\* strictlyLess's list of dividers
dividers == <<TRUNK_LINK, SECONDARY_LINK, SIDE_RESIDENTIAL, ALLEY, PARKING,
              CONNECTIVITY>>

\* std::upper_bound(seq, seq + Len(seq), v) on an ascending seq, as an offset
\* from seq: the first position holding an element greater than v
upper_bound(seq, v) ==
    LET greater == {k \in 1..Len(seq) : seq[k] > v}
    IN  IF greater = {} THEN Len(seq)
        ELSE (CHOOSE k \in greater : \A j \in greater : k <= j) - 1

strictlyLess(lhs, rhs) ==
    LET lhs_class == upper_bound(dividers, GetPriority(lhs))
        rhs_class == upper_bound(dividers, GetPriority(rhs))
    IN  lhs_class < rhs_class

\* Mutant: the road's link flag is not looked at.
isLinkTo_AnyRoad(link, road) ==
    IF ~IsLinkClass(link) THEN FALSE
    ELSE CASE GetPriority(link) = MOTORWAY_LINK -> GetPriority(road) = MOTORWAY
           [] GetPriority(link) = TRUNK_LINK -> GetPriority(road) = TRUNK
           [] GetPriority(link) = PRIMARY_LINK -> GetPriority(road) = PRIMARY
           [] GetPriority(link) = SECONDARY_LINK -> GetPriority(road) = SECONDARY
           [] GetPriority(link) = TERTIARY_LINK -> GetPriority(road) = TERTIARY
           [] OTHER -> FALSE

isLinkTo(link, road) ==
    IF ~IsLinkClass(link) \/ IsLinkClass(road) THEN FALSE
    ELSE CASE GetPriority(link) = MOTORWAY_LINK -> GetPriority(road) = MOTORWAY
           [] GetPriority(link) = TRUNK_LINK -> GetPriority(road) = TRUNK
           [] GetPriority(link) = PRIMARY_LINK -> GetPriority(road) = PRIMARY
           [] GetPriority(link) = SECONDARY_LINK -> GetPriority(road) = SECONDARY
           [] GetPriority(link) = TERTIARY_LINK -> GetPriority(road) = TERTIARY
           [] OTHER -> FALSE

\* Mutant: the dominance test does not ask that the road continues on the
\* same class.
obviousByRoadClass_AnyIn(in_classification, obvious_candidate, compare_candidate) ==
    \/ /\ IsMotorwayClass(in_classification)
       /\ IsMotorwayClass(obvious_candidate)
       /\ IsRampClass(compare_candidate)
    \/ /\ ~IsMotorwayClass(in_classification)
       /\ ~IsMotorwayClass(obvious_candidate)
       /\ ~IsLinkClass(in_classification)
       /\ ~IsLinkClass(obvious_candidate)
       /\ ~IsRampClass(compare_candidate)
       /\ IsLinkClass(compare_candidate)
    \/ /\ FactorNum * GetPriority(obvious_candidate)
              < FactorDen * GetPriority(compare_candidate)
       /\ ~IsRampClass(compare_candidate)
    \/ /\ ~IsLowPriorityRoadClass(obvious_candidate)
       /\ ~IsLowPriorityRoadClass(in_classification)
       /\ IsLowPriorityRoadClass(compare_candidate)

obviousByRoadClass(in_classification, obvious_candidate, compare_candidate) ==
    IF /\ IsMotorwayClass(in_classification)
       /\ IsMotorwayClass(obvious_candidate)
       /\ IsRampClass(compare_candidate)
    THEN TRUE
    ELSE
    LET passing_ramp == /\ IsRampClass(compare_candidate)
                        /\ ~IsMotorwayClass(in_classification)
                        /\ ~IsRampClass(in_classification)
    IN  IF /\ ~IsMotorwayClass(in_classification)
           /\ ~IsMotorwayClass(obvious_candidate)
           /\ ~IsLinkClass(in_classification)
           /\ ~IsLinkClass(obvious_candidate)
           /\ ~IsRampClass(compare_candidate)
           /\ IsLinkClass(compare_candidate)
        THEN TRUE
        ELSE
        LET has_high_priority ==
                /\ FactorNum * GetPriority(obvious_candidate)
                       < FactorDen * GetPriority(compare_candidate)
                /\ ~IsRampClass(compare_candidate)
            continues_on_same_class == Equals(in_classification, obvious_candidate)
        IN  \/ has_high_priority /\ continues_on_same_class /\ ~passing_ramp
            \/ /\ ~IsLowPriorityRoadClass(obvious_candidate)
               /\ ~IsLowPriorityRoadClass(in_classification)
               /\ IsLowPriorityRoadClass(compare_candidate)

\* Mutant: link classes keep their own priority in the dominance test.
obviousByRoadClassOld_RawPriority(in_classification, obvious_candidate, compare_candidate) ==
    \/ /\ FactorNum * GetPriority(obvious_candidate)
              < FactorDen * GetPriority(compare_candidate)
       /\ Equals(in_classification, obvious_candidate)
    \/ /\ ~IsLowPriorityRoadClass(obvious_candidate)
       /\ ~IsLowPriorityRoadClass(in_classification)
       /\ IsLowPriorityRoadClass(compare_candidate)

obviousByRoadClassOld(in_classification, obvious_candidate, compare_candidate) ==
    LET first_priority == IF IsLinkClass(obvious_candidate) THEN LINK_ROAD
                          ELSE GetPriority(obvious_candidate)
        second_priority == IF IsLinkClass(compare_candidate) THEN LINK_ROAD
                           ELSE GetPriority(compare_candidate)
        has_high_priority == FactorNum * first_priority < FactorDen * second_priority
        continues_on_same_class == Equals(in_classification, obvious_candidate)
    IN  \/ has_high_priority /\ continues_on_same_class
        \/ /\ ~IsLowPriorityRoadClass(obvious_candidate)
           /\ ~IsLowPriorityRoadClass(in_classification)
           /\ IsLowPriorityRoadClass(compare_candidate)

\* Classification values with a priority in prios and a lane count in lanes.
RoadClassifications(prios, lanes) ==
    {RoadClassification(m, l, i, p, n) :
        m \in BOOLEAN, l \in BOOLEAN, i \in BOOLEAN, p \in prios, n \in lanes}

NoResult == [fn |-> "none", value |-> FALSE]

\* Arguments of the two-argument heuristics: every priority the bit-field holds.
PairInputs == RoadClassifications(0..(2 ^ PriorityBits - 1), {1})

\* Arguments of the three-argument heuristics.  number_of_lanes is read by
\* none of them, and operator== (which skips it) compares in_classification
\* with obvious_candidate only, so it varies on in_classification.
TripleInputsIn == RoadClassifications(0..MaxPriority, {1, 2})

TripleInputs == RoadClassifications(0..MaxPriority, {1})

Apply(fn, value) ==
    /\ result = NoResult
    /\ result' = [fn |-> fn, value |-> value]
    /\ UNCHANGED args
    /\ UNCHANGED dispatcherVars

Call_canBeSeenAsFork ==
    /\ Len(args) = 2
    /\ Apply("canBeSeenAsFork", canBeSeenAsFork(args[1], args[2]))

Call_strictlyLess ==
    /\ Len(args) = 2
    /\ Apply("strictlyLess", strictlyLess(args[1], args[2]))

Call_isLinkTo ==
    /\ Len(args) = 2
    /\ Apply("isLinkTo", isLinkTo(args[1], args[2]))

Call_obviousByRoadClass ==
    /\ Len(args) = 3
    /\ Apply("obviousByRoadClass", obviousByRoadClass(args[1], args[2], args[3]))

Call_obviousByRoadClassOld ==
    /\ Len(args) = 3
    /\ Apply("obviousByRoadClassOld",
             obviousByRoadClassOld(args[1], args[2], args[3]))

(***************************************************************************)
(* Specifications                                                          *)
(***************************************************************************)
Init ==
    /\ DispatcherInit
    /\ args = << >>
    /\ result = NoResult

Next ==
    \/ \E d \in Descriptors : RegisterPlugin(d)
    \/ \E s \in Services, pre \in PriorReplies : RunQuery(s, pre)
    \/ Destroy

\* The dispatcher.
Spec == Init /\ [][Next]_vars

InitPair ==
    /\ DispatcherInit
    /\ args \in {<<a, b>> : a \in PairInputs, b \in PairInputs}
    /\ result = NoResult

NextPair ==
    \/ Call_canBeSeenAsFork
    \/ Call_strictlyLess
    \/ Call_isLinkTo

\* The two-argument heuristics, each applied to every pair of inputs.
SpecPair == InitPair /\ [][NextPair]_vars

InitTriple ==
    /\ DispatcherInit
    /\ args \in {<<a, b, c>> : a \in TripleInputsIn, b \in TripleInputs,
                               c \in TripleInputs}
    /\ result = NoResult

NextTriple ==
    \/ Call_obviousByRoadClass
    \/ Call_obviousByRoadClassOld

\* The three-argument heuristics, each applied to every triple of inputs.
SpecTriple == InitTriple /\ [][NextTriple]_vars

(***************************************************************************)
(* Properties of the dispatcher, checked under Spec                        *)
(***************************************************************************)
\* The plugins that were registered with descriptor d, oldest first by id.
Registered(d) == {i \in 1..Len(plugins) : plugins[i].descriptor = d}

\* The most recently registered of them.
Latest(d) == CHOOSE i \in Registered(d) : \A j \in Registered(d) : j <= i

RegisteredDescriptors == {plugins[i].descriptor : i \in 1..Len(plugins)}

\* C1: after any sequence of RegisterPlugin calls the registry holds one
\* entry per registered descriptor, its handler is the most recently
\* registered plugin with that descriptor and is not destroyed, and every
\* earlier plugin with that descriptor has been destroyed.
C1_RegistryHoldsLatest ==
    pc = "running" =>
        /\ DOMAIN plugin_map = RegisteredDescriptors
        /\ \A d \in DOMAIN plugin_map :
              /\ plugin_map[d] = Latest(d)
              /\ plugins[Latest(d)].deleted = 0
              /\ \A i \in Registered(d) \ {Latest(d)} : plugins[i].deleted = 1

\* C2: RunQuery with a service name that no registered plugin carries
\* returns with reply equal to the stock bad-request response, whatever
\* reply held before, and has invoked no handler.
C2_NoMatchStockReply ==
    (last.op = "RunQuery" /\ Registered(last.service) = {}) =>
        /\ last.returned
        /\ reply.status = "badRequest"
        /\ reply.content = "stock"
        /\ last.invoked = << >>

\* C2 witness: a reply that was ok and held a body is overwritten, in a
\* registry that has seen a repeated descriptor.
C2_Witness ==
    /\ last.op = "RunQuery"
    /\ Registered(last.service) = {}
    /\ last.pre = [status |-> "ok", content |-> "prior"]
    /\ reply = [status |-> "badRequest", content |-> "stock"]
    /\ \E i \in 1..Len(plugins) : plugins[i].deleted > 0

\* C3: RunQuery with a service name that a registered plugin carries returns
\* after invoking the handler of the plugin registered under that name
\* exactly once and no other handler, and the reply is as the handler left
\* it.
C3_DelegatesOnce ==
    (last.op = "RunQuery" /\ Registered(last.service) # {}) =>
        /\ last.returned
        /\ last.invoked = <<Latest(last.service)>>
        /\ reply.status = IF last.wrote = "untouched" THEN last.passed.status
                          ELSE last.wrote

\* C4: once the dispatcher is destroyed, every plugin it took ownership of
\* has been released exactly once, and the DataFacade has been released.
C4_ReleasedExactlyOnce ==
    pc \in {"destroyed", "crashed"} /\ last.op = "Destroy" =>
        /\ pc = "destroyed"
        /\ \A i \in 1..Len(plugins) : plugins[i].deleted = 1
        /\ query_data_facade = "released"

\* C10 as stated: on a matching service name, if the handler leaves the
\* status untouched, the status after RunQuery is the status before it.
C10_StatusUntouched ==
    (/\ last.op = "RunQuery"
     /\ Registered(last.service) # {}
     /\ last.returned
     /\ last.wrote = "untouched") => reply.status = last.pre.status

\* C10 amended: on a matching service name the dispatcher writes one field
\* of reply, setting status to ok before it invokes the handler and leaving
\* the rest as it was, and writes nothing afterwards; so if the handler
\* leaves the status untouched, the status after RunQuery is ok.
C10_StatusPresetOk ==
    (last.op = "RunQuery" /\ Registered(last.service) # {}) =>
        /\ last.passed.status = "ok"
        /\ last.passed.content = last.pre.content
        /\ (last.returned /\ last.wrote = "untouched") => reply.status = "ok"

\* C10 witness: a reply that was bad-request comes back ok from a handler
\* that did not write the status.
C10_Witness ==
    /\ last.op = "RunQuery"
    /\ Registered(last.service) # {}
    /\ last.returned
    /\ last.wrote = "untouched"
    /\ last.pre.status = "badRequest"
    /\ reply.status = "ok"

(***************************************************************************)
(* Properties of the two-argument heuristics, checked under SpecPair       *)
(***************************************************************************)
\* The band of a priority: the dividers are the inclusive ends of the bands,
\* so a priority lies in the band of the first divider not below it.
Band(p) == Cardinality({k \in 1..Len(dividers) : dividers[k] < p})

\* C5: strictlyLess(lhs, rhs) is true iff the band of lhs lies strictly
\* after the band of rhs (lhs is of lower priority).
C5_StrictlyLessIffLowerBand ==
    result.fn = "strictlyLess" =>
        (result.value <=> Band(GetPriority(args[1])) > Band(GetPriority(args[2])))

\* C6: strictlyLess is irreflexive, asymmetric and transitive, and false
\* in both directions for two priorities of the same band.
C6_StrictWeakOrderOnBands ==
    result.fn = "strictlyLess" =>
        /\ Equals(args[1], args[2]) => ~result.value
        /\ result.value => ~strictlyLess(args[2], args[1])
        /\ \A p \in 0..(2 ^ PriorityBits - 1) :
              LET c == RoadClassification(FALSE, FALSE, FALSE, p, 1)
              IN  (result.value /\ strictlyLess(args[2], c))
                      => strictlyLess(args[1], c)
        /\ Band(GetPriority(args[1])) = Band(GetPriority(args[2]))
              => (~result.value /\ ~strictlyLess(args[2], args[1]))

LinkPairs == {<<MOTORWAY_LINK, MOTORWAY>>, <<TRUNK_LINK, TRUNK>>,
              <<PRIMARY_LINK, PRIMARY>>, <<SECONDARY_LINK, SECONDARY>>,
              <<TERTIARY_LINK, TERTIARY>>}

\* C8: isLinkTo(link, road) is true iff link is of link class, road is not,
\* and their priorities are one of the five link/road pairs.
C8_IsLinkToIffFittingPair ==
    result.fn = "isLinkTo" =>
        (result.value <=>
            /\ args[1].link_class = 1
            /\ args[2].link_class = 0
            /\ <<args[1].road_priority_class, args[2].road_priority_class>>
                   \in LinkPairs)

\* C8 witness: a tertiary link fits a tertiary road.
C8_Witness ==
    /\ result = [fn |-> "isLinkTo", value |-> TRUE]
    /\ args[1].road_priority_class = TERTIARY_LINK
    /\ args[2].road_priority_class = TERTIARY

(***************************************************************************)
(* Properties of the three-argument heuristics, checked under SpecTriple   *)
(***************************************************************************)
\* The four cases of obviousByRoadClass(in, obvious, compare).
CaseA(in, obvious, compare) ==
    /\ in.motorway_class = 1
    /\ obvious.motorway_class = 1
    /\ compare.motorway_class = 1 /\ compare.link_class = 1

CaseB(in, obvious, compare) ==
    /\ in.motorway_class = 0 /\ in.link_class = 0
    /\ obvious.motorway_class = 0 /\ obvious.link_class = 0
    /\ compare.link_class = 1 /\ compare.motorway_class = 0

CaseC(in, obvious, compare) ==
    /\ FactorNum * obvious.road_priority_class
           < FactorDen * compare.road_priority_class
    /\ ~(compare.motorway_class = 1 /\ compare.link_class = 1)
    /\ Equals(in, obvious)

CaseD(in, obvious, compare) ==
    /\ obvious.may_be_ignored = 0
    /\ in.may_be_ignored = 0
    /\ compare.may_be_ignored = 1

\* C7: obviousByRoadClass is true exactly when one of the four cases holds;
\* so with a ramp as compare_candidate and in not of motorway class it is
\* true only through the last case.
C7_ObviousIffOneCase ==
    result.fn = "obviousByRoadClass" =>
        /\ result.value <=> \/ CaseA(args[1], args[2], args[3])
                            \/ CaseB(args[1], args[2], args[3])
                            \/ CaseC(args[1], args[2], args[3])
                            \/ CaseD(args[1], args[2], args[3])
        /\ (/\ args[3].motorway_class = 1 /\ args[3].link_class = 1
            /\ args[1].motorway_class = 0
            /\ result.value) => CaseD(args[1], args[2], args[3])

\* C7 witness: obvious through the dominance case alone, in and
\* obvious_candidate differing in nothing but the lane count.
C7_Witness ==
    /\ result = [fn |-> "obviousByRoadClass", value |-> TRUE]
    /\ CaseC(args[1], args[2], args[3])
    /\ ~CaseA(args[1], args[2], args[3])
    /\ ~CaseB(args[1], args[2], args[3])
    /\ ~CaseD(args[1], args[2], args[3])
    /\ args[1] # args[2]

\* C9 as stated: obviousByRoadClassOld is true iff obvious_candidate
\* dominates compare_candidate by priority or the low-priority case holds,
\* whatever in_classification is otherwise.
C9_OldIgnoresIn ==
    result.fn = "obviousByRoadClassOld" =>
        (result.value <=>
            \/ FactorNum * args[2].road_priority_class
                   < FactorDen * args[3].road_priority_class
            \/ CaseD(args[1], args[2], args[3]))

\* The priority obviousByRoadClassOld compares: LINK_ROAD for a link class.
OldPriority(c) == IF c.link_class = 1 THEN 14 ELSE c.road_priority_class

\* C9 amended: obviousByRoadClassOld is true iff obvious_candidate dominates
\* compare_candidate by priority, every link class counting with the
\* priority LINK_ROAD, and in_classification equals obvious_candidate, or
\* the low-priority case holds.
C9_OldDominanceOnSameClass ==
    result.fn = "obviousByRoadClassOld" =>
        (result.value <=>
            \/ /\ FactorNum * OldPriority(args[2]) < FactorDen * OldPriority(args[3])
               /\ Equals(args[1], args[2])
            \/ CaseD(args[1], args[2], args[3]))

\* C9 witness: obvious only because the link class compare_candidate counts
\* as LINK_ROAD; its own priority is not dominated.
C9_Witness ==
    /\ result = [fn |-> "obviousByRoadClassOld", value |-> TRUE]
    /\ ~CaseD(args[1], args[2], args[3])
    /\ args[3].link_class = 1
    /\ FactorNum * args[2].road_priority_class
           >= FactorDen * args[3].road_priority_class

====
